---- MODULE Spec2Model ----
\* Token lifecycle of tiled/server/authentication.py: access and refresh
\* tokens (create_access_token, create_refresh_token, decode_token), the
\* principal resolver (check_single_user_api_key, get_current_user) and the
\* endpoints /token, /token/refresh and /logout.
\*
\* Time is counted in clock ticks; TicksPerSecond ticks make one second, so
\* that a sub-second clock (datetime.utcnow, float timestamps) and jose's
\* whole-second "exp" arithmetic are both represented.
EXTENDS Integers, Sequences, FiniteSets, TLC

\* ---------------------------------------------------------------- bounds
TicksPerSecond == 1
\* The wall clock runs from 0 to MaxClock ticks.
MaxClock == 3
\* Secret keys are numbered 1..MaxKey; key 1 is the first ring.
MaxKey == 2
\* The client follows its refresh chain for at most MaxChain refreshes.
MaxChain == 2
\* The clock advances by at most MaxDrift ticks while one handler runs.
MaxDrift == 1
\* At most MaxLogins logins succeed in a history of sessions.
MaxLogins == 2
\* At most MaxRefreshes refreshes succeed in a history of sessions.
MaxRefreshes == 2

\* ------------------------------------------------------------ value sets
\* Optional[T]: None is <<>>, a value v is <<v>>.
None == <<>>
Some(v) == <<v>>

Users == {"alice", "admin"}
Passwords == {"right", "wrong"}
ApiKeys == {"secret", "other"}
Seconds(n) == n * TicksPerSecond

AccessMaxAges == {Seconds(1)}
RefreshMaxAges == {Seconds(1), Seconds(2)}
SessionMaxAges == {None, Some(Seconds(1)), Some(Seconds(2))}
\* The server's local time is ahead of UTC by this much.
TZOffsets == {Seconds(1)}

\* Names of the source (lines 31-34).
API_KEY_COOKIE_NAME == "tiled_api_key"
CSRF_COOKIE_NAME == "tiled_csrf"

\* A string that is no JWT at all.
Malformed == [key |-> 0, claims |-> [type |-> "malformed"]]

VARIABLES
  clock,          \* the wall clock (UTC), in ticks
  tz,             \* the server's local UTC offset, in ticks
  settings,       \* get_settings(): the configuration but for secret_keys
  secret_keys,    \* settings.secret_keys: the key ring, key 0 first
  authenticator,  \* get_authenticator(): None or an authenticator
  chain,          \* the responses the client holds: its login, then the
                  \* refreshes of its refresh chain, oldest first
  next_uuid,      \* the next value uuid.uuid4().int returns
  resp,           \* the last request and its response
  ledger          \* history: what the service has issued and accepted so
                  \* far (the service itself keeps no such record)

vars == <<clock, tz, settings, secret_keys, authenticator, chain, next_uuid, resp,
          ledger>>

\* ------------------------------------------------------------ the clock
\* datetime.utcnow(): a naive datetime holding the UTC wall clock.
\* datetime.timestamp() of a naive datetime reads it as local time.
Timestamp(dt) == dt - tz
\* Mutant: datetime.utcfromtimestamp(ts) in place of fromtimestamp(ts).
FromTimestampUtc(ts) == ts
\* datetime.fromtimestamp(ts): the naive local time of a timestamp.
FromTimestamp(ts) == ts + tz
\* calendar.timegm(dt.utctimetuple()): whole seconds, the naive datetime
\* read as UTC (python-jose applies it to "exp" on encoding and to
\* datetime.utcnow() on validation).
Timegm(dt) == dt \div TicksPerSecond

\* ------------------------------------------------------------ the codec
\* jwt.encode(claims, key, algorithm=ALGORITHM): HS256 is deterministic, so
\* a token is its claims and the key that signed them; a datetime "exp" is
\* converted to whole seconds.
JwtEncode(claims, key) ==
  [key |-> key,
   claims |-> IF "exp" \in DOMAIN claims
              THEN [claims EXCEPT !.exp = Timegm(@)]
              ELSE claims]

\* jwt.decode(token, key, algorithms=[ALGORITHM]) at wall clock utcnow: the
\* signature is verified first, then "exp" if the claims have one.
JwtDecode(token, key, utcnow) ==
  IF token.key # key
  THEN [outcome |-> "JWTError"]
  ELSE IF "exp" \in DOMAIN token.claims /\ token.claims.exp < Timegm(utcnow)
       THEN [outcome |-> "ExpiredSignatureError"]
       ELSE [outcome |-> "payload", payload |-> token.claims]

\* Mutant: the subject is not taken from data.
create_access_token_Admin(data, expires_delta, secret_key, utcnow) ==
  JwtEncode([sub |-> "admin", exp |-> utcnow + expires_delta, type |-> "access"],
            secret_key)

\* utcnow is the value datetime.utcnow() returns in the call.
create_access_token(data, expires_delta, secret_key, utcnow) ==
  JwtEncode([sub |-> data.sub, exp |-> utcnow + expires_delta, type |-> "access"],
            secret_key)

\* Mutant: a session id that is not drawn anew.
SessionIdOrFixed(session_id, uuid) ==
  IF session_id = None \/ session_id[1] = 0 THEN 1 ELSE session_id[1]

\* "session_id or uuid.uuid4().int": None and 0 are falsy.
SessionIdOr(session_id, uuid) ==
  IF session_id = None \/ session_id[1] = 0 THEN uuid ELSE session_id[1]

\* "session_creation_time or issued_at_time": a datetime is always truthy.
SessionCreationTimeOr(session_creation_time, issued_at_time) ==
  IF session_creation_time = None THEN issued_at_time ELSE session_creation_time[1]

\* utcnow is the value datetime.utcnow() returns in the call, uuid the value
\* uuid.uuid4().int would return.
create_refresh_token(data, secret_key, session_id, session_creation_time, utcnow, uuid) ==
  LET issued_at_time == utcnow
  IN JwtEncode([sub |-> data.sub,
                type |-> "refresh",
                iat |-> Timestamp(issued_at_time),
                sid |-> SessionIdOr(session_id, uuid),
                sct |-> Timestamp(SessionCreationTimeOr(session_creation_time,
                                                        issued_at_time))],
               secret_key)

Error(status, detail) == [ok |-> FALSE, status_code |-> status, detail |-> detail]

credentials_exception == Error(401, "Could not validate credentials")

\* Mutant: only the first key of the ring is tried.
DecodeLoopFirstKeyOnly(token, keys, i, utcnow) ==
  LET r == JwtDecode(token, keys[1], utcnow)
  IN CASE r.outcome = "payload" -> [ok |-> TRUE, payload |-> r.payload]
       [] r.outcome = "ExpiredSignatureError" ->
            Error(401, "Access token has expired.")
       [] OTHER -> credentials_exception

\* Mutant: a key under which the token has expired is passed over like a
\* key that does not verify it.
DecodeLoopExpiredContinues(token, keys, i, utcnow) ==
  IF \E j \in i..Len(keys) : JwtDecode(token, keys[j], utcnow).outcome = "payload"
  THEN [ok |-> TRUE, payload |-> token.claims]
  ELSE credentials_exception

\* The for/else loop of decode_token over secret_keys[i..].
RECURSIVE DecodeLoop(_, _, _, _)
DecodeLoop(token, keys, i, utcnow) ==
  IF i > Len(keys)
  THEN credentials_exception
  ELSE LET r == JwtDecode(token, keys[i], utcnow)
       IN CASE r.outcome = "payload" -> [ok |-> TRUE, payload |-> r.payload]
            [] r.outcome = "ExpiredSignatureError" ->
                 Error(401, "Access token has expired.")
            [] OTHER -> DecodeLoop(token, keys, i + 1, utcnow)

\* Mutant: the "type" claim is not compared with expected_type.
decode_token_AnyType(token, keys, expected_type, utcnow) ==
  DecodeLoop(token, keys, 1, utcnow)

\* Mutant: a refresh token that has been used, and every token issued before
\* the last logout, is refused.
decode_token_Revoking(token, keys, expected_type, utcnow) ==
  LET r == DecodeLoop(token, keys, 1, utcnow)
  IN IF token \in ledger.used \cup ledger.at_logout.issued THEN credentials_exception
     ELSE IF ~r.ok THEN r
     ELSE IF r.payload.type # expected_type THEN credentials_exception
     ELSE r

decode_token(token, keys, expected_type, utcnow) ==
  LET r == DecodeLoop(token, keys, 1, utcnow)
  IN IF ~r.ok THEN r
     ELSE IF r.payload.type # expected_type THEN credentials_exception
     ELSE r

\* authenticator.authenticate(username, password): the user name, or a
\* falsy value when the password is wrong.
Authenticate(username, password) ==
  IF password = "right" THEN username ELSE ""

\* ------------------------------------------------------------ endpoints
\* Mutant: the last key of the ring encodes.
EncodingKeyLast(keys) == keys[Len(keys)]
\* "secret_key=settings.secret_keys[0]": the first key encodes.
EncodingKey(keys) == keys[1]

\* POST /token. The clock is read twice: by create_access_token at t1 and,
\* later, by create_refresh_token at t2.
login_for_access_token(username, password, t1, t2, uuid) ==
  IF authenticator = None
  THEN Error(404, IF settings.allow_anonymous_access
                  THEN "This is a public Tiled server with no login."
                  ELSE "This is a single-user Tiled server. To authenticate, use the API key logged at server startup.")
  ELSE LET name == Authenticate(username, password)
       IN IF name = ""
          THEN Error(401, "Incorrect username or password")
          ELSE [ok |-> TRUE,
                access_token |->
                  create_access_token([sub |-> name], settings.access_token_max_age,
                                      EncodingKey(secret_keys), t1),
                expires_in |-> settings.access_token_max_age \div Seconds(1),
                refresh_token |->
                  create_refresh_token([sub |-> name], EncodingKey(secret_keys),
                                       None, None, t2, uuid),
                refresh_token_expires_in |->
                  settings.refresh_token_max_age \div Seconds(1),
                token_type |-> "bearer"]

\* Mutant: ">=" in place of ">".
RefreshTokenTooOldInclusive(now, payload) ==
  now - payload.iat >= settings.refresh_token_max_age

\* Mutant: a login closes the sessions begun before it.
RefreshTokenTooOldOrSuperseded(now, payload) ==
  \/ now - payload.iat > settings.refresh_token_max_age
  \/ /\ ledger.logins # <<>>
     /\ payload.sid # ledger.logins[Len(ledger.logins)].sid

\* "timedelta(seconds=(now - payload["iat"])) > settings.refresh_token_max_age"
RefreshTokenTooOld(now, payload) ==
  now - payload.iat > settings.refresh_token_max_age

\* Mutant: the session's age taken from "iat" in place of "sct".
SessionTooOldFromIat(now, payload) ==
  /\ settings.session_max_age # None
  /\ now - payload.iat > settings.session_max_age[1]

\* Mutant: ">=" in place of ">".
SessionTooOldInclusive(now, payload) ==
  /\ settings.session_max_age # None
  /\ now - payload.sct >= settings.session_max_age[1]

\* The session age check, made only when settings.session_max_age is set.
SessionTooOld(now, payload) ==
  /\ settings.session_max_age # None
  /\ now - payload.sct > settings.session_max_age[1]

\* POST /token/refresh. The clock is read by jwt.decode and for "now" at t0,
\* later by create_refresh_token at t1 and last by create_access_token at t2.
\* payload["iat"] and the like raise KeyError on a payload without the claim.
refresh(refresh_token, t0, t1, t2, uuid) ==
  LET d == decode_token(refresh_token, secret_keys, "refresh", t0)
      now == Timestamp(t0)
  IN IF ~d.ok THEN d
     ELSE IF ~({"iat", "sct", "sub", "sid"} \subseteq DOMAIN d.payload)
     THEN Error(500, "KeyError")
     ELSE IF RefreshTokenTooOld(now, d.payload)
     THEN Error(401, "Session has expired. Please re-authenticate.")
     ELSE IF SessionTooOld(now, d.payload)
     THEN Error(401, "Session has expired. Please re-authenticate.")
     ELSE [ok |-> TRUE,
           access_token |->
             create_access_token([sub |-> d.payload.sub],
                                 settings.access_token_max_age,
                                 EncodingKey(secret_keys), t2),
           expires_in |-> settings.access_token_max_age \div Seconds(1),
           refresh_token |->
             create_refresh_token([sub |-> d.payload.sub], EncodingKey(secret_keys),
                                  Some(d.payload.sid),
                                  Some(FromTimestamp(d.payload.sct)), t1, uuid),
           refresh_token_expires_in |->
             settings.refresh_token_max_age \div Seconds(1),
           token_type |-> "bearer"]

\* POST /logout: two cookies are deleted on the response, nothing else.
logout ==
  [ok |-> TRUE, body |-> {},
   deleted_cookies |-> <<API_KEY_COOKIE_NAME, CSRF_COOKIE_NAME>>]

\* ------------------------------------------------------------- resolver
\* Mutant: a value that does not match falls through to the next channel.
ApiKeyLoopAnyChannel(api_keys, i) ==
  IF \E j \in i..Len(api_keys) : api_keys[j] = settings.single_user_api_key
                                /\ api_keys[j] # None
  THEN [ok |-> TRUE, value |-> TRUE]
  ELSE IF \E j \in i..Len(api_keys) : api_keys[j] # None
       THEN Error(401, "Invalid API key")
       ELSE [ok |-> TRUE, value |-> FALSE]

\* The loop of check_single_user_api_key over [query, header, cookie][i..].
RECURSIVE ApiKeyLoop(_, _)
ApiKeyLoop(api_keys, i) ==
  IF i > Len(api_keys)
  THEN [ok |-> TRUE, value |-> FALSE]
  ELSE IF api_keys[i] # None
       THEN IF api_keys[i] = settings.single_user_api_key
            THEN [ok |-> TRUE, value |-> TRUE]
            ELSE Error(401, "Invalid API key")
       ELSE ApiKeyLoop(api_keys, i + 1)

\* Mutant: the channels are looked at only when a key is configured.
check_single_user_api_key_Configured(api_key_query, api_key_header, api_key_cookie) ==
  IF settings.single_user_api_key = None
  THEN [ok |-> TRUE, value |-> FALSE]
  ELSE ApiKeyLoop(<<api_key_query, api_key_header, api_key_cookie>>, 1)

check_single_user_api_key(api_key_query, api_key_header, api_key_cookie) ==
  ApiKeyLoop(<<api_key_query, api_key_header, api_key_cookie>>, 1)

\* SpecialUsers.admin and SpecialUsers.public (tiled/utils.py), and a user
\* name taken from a token's "sub".
Admin == [special |-> TRUE, name |-> "admin"]
Public == [special |-> TRUE, name |-> "public"]
\* Mutant: a user name that spells a sentinel is that sentinel.
NamedUntagged(username) ==
  CASE username = "admin" -> Admin
    [] username = "public" -> Public
    [] OTHER -> [special |-> FALSE, name |-> username]
Named(username) == [special |-> FALSE, name |-> username]

\* Mutant: the authenticator is not looked at.
IsSingleUserAdminAnyMode(has_single_user_api_key) ==
  has_single_user_api_key

\* "(authenticator is None) and has_single_user_api_key"
IsSingleUserAdmin(has_single_user_api_key) ==
  authenticator = None /\ has_single_user_api_key

\* Mutant: a request without bearer token is public whatever
\* settings.allow_anonymous_access is.
get_current_user_AnonymousAlways(api_key_query, api_key_header, api_key_cookie, token, utcnow) ==
  LET has_single_user_api_key ==
        check_single_user_api_key(api_key_query, api_key_header, api_key_cookie)
  IN IF ~has_single_user_api_key.ok THEN has_single_user_api_key
     ELSE IF IsSingleUserAdmin(has_single_user_api_key.value)
     THEN [ok |-> TRUE, principal |-> Admin,
           cookies_to_set |->
             IF api_key_cookie # settings.single_user_api_key
             THEN <<<<API_KEY_COOKIE_NAME, settings.single_user_api_key>>>>
             ELSE <<>>]
     ELSE IF token = None
     THEN [ok |-> TRUE, principal |-> Public, cookies_to_set |-> <<>>]
     ELSE LET d == decode_token(token[1], secret_keys, "access", utcnow)
          IN IF ~d.ok THEN d
             ELSE [ok |-> TRUE, principal |-> Named(d.payload.sub),
                   cookies_to_set |-> <<>>]

\* Mutant: the cookie is scheduled whenever the request resolves to admin.
get_current_user_CookieAlways(api_key_query, api_key_header, api_key_cookie, token, utcnow) ==
  LET has_single_user_api_key ==
        check_single_user_api_key(api_key_query, api_key_header, api_key_cookie)
  IN IF ~has_single_user_api_key.ok THEN has_single_user_api_key
     ELSE IF IsSingleUserAdmin(has_single_user_api_key.value)
     THEN [ok |-> TRUE, principal |-> Admin,
           cookies_to_set |-> <<<<API_KEY_COOKIE_NAME, settings.single_user_api_key>>>>]
     ELSE IF token = None
     THEN IF settings.allow_anonymous_access
          THEN [ok |-> TRUE, principal |-> Public, cookies_to_set |-> <<>>]
          ELSE Error(401, "Not authenticated")
     ELSE LET d == decode_token(token[1], secret_keys, "access", utcnow)
          IN IF ~d.ok THEN d
             ELSE [ok |-> TRUE, principal |-> Named(d.payload.sub),
                   cookies_to_set |-> <<>>]

\* get_current_user with its dependency check_single_user_api_key, which
\* runs first. request.cookies.get(API_KEY_COOKIE_NAME) is the cookie that
\* api_key_cookie reads. token is the bearer token, None when absent.
get_current_user(api_key_query, api_key_header, api_key_cookie, token, utcnow) ==
  LET has_single_user_api_key ==
        check_single_user_api_key(api_key_query, api_key_header, api_key_cookie)
  IN IF ~has_single_user_api_key.ok THEN has_single_user_api_key
     ELSE IF IsSingleUserAdmin(has_single_user_api_key.value)
     THEN [ok |-> TRUE, principal |-> Admin,
           cookies_to_set |->
             IF api_key_cookie # settings.single_user_api_key
             THEN <<<<API_KEY_COOKIE_NAME, settings.single_user_api_key>>>>
             ELSE <<>>]
     ELSE IF token = None
     THEN IF settings.allow_anonymous_access
          THEN [ok |-> TRUE, principal |-> Public, cookies_to_set |-> <<>>]
          ELSE Error(401, "Not authenticated")
     ELSE LET d == decode_token(token[1], secret_keys, "access", utcnow)
          IN IF ~d.ok THEN d
             ELSE [ok |-> TRUE, principal |-> Named(d.payload.sub),
                   cookies_to_set |-> <<>>]

\* ---------------------------------------------------------------- state
Settings ==
  [access_token_max_age : AccessMaxAges,
   refresh_token_max_age : RefreshMaxAges,
   session_max_age : SessionMaxAges,
   allow_anonymous_access : BOOLEAN,
   single_user_api_key : {None, Some("secret")}]

\* The history of a service that has served no request: issued are the
\* tokens issued so far, used the refresh tokens that a successful refresh
\* was given and refreshes the number of successful refreshes, logins the
\* successful logins in their order (the user the authenticator returned, and
\* the session id issued), at_logout the issued and the used tokens as they
\* were at the last logout.
EmptyLedger ==
  [issued |-> {}, used |-> {}, refreshes |-> 0, logins |-> <<>>,
   at_logout |-> [issued |-> {}, used |-> {}]]

\* A deployment with an authenticator, whose clients log in: every
\* combination of the two maximum ages of a refresh chain.
Init ==
  /\ clock = 0
  /\ tz \in TZOffsets
  /\ settings \in {s \in Settings : s.single_user_api_key = None
                                     /\ ~s.allow_anonymous_access}
  /\ secret_keys = <<1>>
  /\ authenticator = Some("authenticator")
  /\ chain = <<>>
  /\ next_uuid = 1
  /\ resp = [op |-> "start"]
  /\ ledger = EmptyLedger

\* Time passes between requests.
Tick ==
  /\ clock < MaxClock
  /\ clock' = clock + 1
  /\ resp' = [op |-> "tick"]
  /\ UNCHANGED <<tz, settings, secret_keys, authenticator, chain, next_uuid, ledger>>

\* What the client keeps of a successful response r: both tokens, and when
\* the access token was minted.
Kept(r, minted) ==
  [refresh_token |-> r.refresh_token, access_token |-> r.access_token,
   minted |-> minted]

\* A login request, which takes d ticks between its two clock reads. The
\* client keeps the tokens of its first successful login.
Login(username, password, d) ==
  LET t1 == clock
      t2 == clock + d
      r == login_for_access_token(username, password, t1, t2, next_uuid)
  IN /\ t2 <= MaxClock
     /\ r.ok => chain = <<>>
     /\ resp' = [op |-> "login", username |-> username, password |-> password,
                 t0 |-> clock, t1 |-> t1, t2 |-> t2, keys |-> secret_keys, r |-> r]
     /\ IF r.ok
        THEN /\ clock' = t2
             /\ next_uuid' = next_uuid + 1
             /\ chain' = <<Kept(r, t1)>>
        ELSE UNCHANGED <<clock, next_uuid, chain>>
     /\ UNCHANGED <<tz, settings, secret_keys, authenticator, ledger>>

\* A refresh request presenting token, which takes d ticks between reading
\* "now" and minting the two tokens (both minted on the same tick). The
\* client keeps the response when it presented the newest refresh token of
\* its chain; an older one can be presented again.
Refresh(token, d) ==
  LET t1 == clock + d
      t2 == clock + d
      r == refresh(token, clock, t1, t2, next_uuid)
  IN /\ t2 <= MaxClock
     /\ resp' = [op |-> "refresh", token |-> token,
                 t0 |-> clock, t1 |-> t1, t2 |-> t2, keys |-> secret_keys, r |-> r]
     /\ IF r.ok
        THEN /\ clock' = t2
             /\ chain' = IF /\ chain # <<>>
                            /\ token = chain[Len(chain)].refresh_token
                            /\ Len(chain) <= MaxChain
                         THEN Append(chain, Kept(r, t2))
                         ELSE chain
        ELSE UNCHANGED <<clock, chain>>
     /\ UNCHANGED <<tz, settings, secret_keys, authenticator, next_uuid, ledger>>

\* A request for a protected resource.
Resolve(api_key_query, api_key_header, api_key_cookie, token) ==
  /\ resp' = [op |-> "resolve", api_key_query |-> api_key_query,
              api_key_header |-> api_key_header,
              api_key_cookie |-> api_key_cookie, token |-> token,
              t0 |-> clock, keys |-> secret_keys,
              r |-> get_current_user(api_key_query, api_key_header,
                                     api_key_cookie, token, clock)]
  /\ UNCHANGED <<clock, tz, settings, secret_keys, authenticator, chain, next_uuid,
                 ledger>>

\* The history notes what had been issued and used when the client last
\* logged out.
Logout ==
  /\ resp' = [op |-> "logout", r |-> logout]
  /\ ledger' = [ledger EXCEPT !.at_logout = [issued |-> ledger.issued,
                                             used |-> ledger.used]]
  /\ UNCHANGED <<clock, tz, settings, secret_keys, authenticator, chain, next_uuid>>

\* Key rotation (a restart with a new settings.secret_keys): a new key is
\* put first, the keys in use move back.
RotateKey ==
  /\ secret_keys[1] < MaxKey
  /\ secret_keys' = <<secret_keys[1] + 1>> \o secret_keys
  /\ resp' = [op |-> "rotate"]
  /\ UNCHANGED <<clock, tz, settings, authenticator, chain, next_uuid, ledger>>

\* A key other than the encoding key is taken out of the ring.
RetireKey(i) ==
  /\ i \in 2..Len(secret_keys)
  /\ secret_keys' = SubSeq(secret_keys, 1, i - 1)
                      \o SubSeq(secret_keys, i + 1, Len(secret_keys))
  /\ resp' = [op |-> "retire", key |-> secret_keys[i]]
  /\ UNCHANGED <<clock, tz, settings, authenticator, chain, next_uuid, ledger>>

\* What a client can present as a token: what it holds, or a string that is
\* no token.
HeldRefresh == {chain[i].refresh_token : i \in 1..Len(chain)}
HeldAccess == {chain[i].access_token : i \in 1..Len(chain)}
Presentable == HeldRefresh \cup HeldAccess \cup {Malformed}
\* The ticks that pass between two clock reads of one handler.
Drifts == 0..MaxDrift

Next ==
  \/ Tick
  \/ \E u \in Users, p \in Passwords, d \in Drifts : Login(u, p, d)
  \/ \E t \in Presentable, d \in Drifts : Refresh(t, d)
  \/ \E t \in {None} \cup {Some(x) : x \in Presentable} : Resolve(None, None, None, t)
  \/ Logout
  \/ RotateKey
  \/ \E i \in 1..MaxKey : RetireKey(i)

Spec == Init /\ [][Next]_vars

\* ------------------------------------------------- the resolver, alone
\* get_current_user is a function of the request, the configuration and the
\* clock. Here one request is resolved in every configuration of the
\* resolver, at every time and under every key ring that RotateKey and
\* RetireKey lead to: each API key channel is absent or holds a key, and the
\* bearer token is any token a deployment with these keys has minted by now.
Rings ==
  {ring \in UNION {[1..n -> 1..MaxKey] : n \in 1..MaxKey} :
     \A i, j \in DOMAIN ring : i < j => ring[i] > ring[j]}

InitResolver ==
  /\ clock \in 0..MaxClock
  /\ tz \in TZOffsets
  /\ settings \in {s \in Settings : s.refresh_token_max_age = Seconds(1)
                                     /\ s.session_max_age = None}
  /\ secret_keys \in Rings
  /\ authenticator \in {None, Some("authenticator")}
  /\ chain = <<>>
  /\ next_uuid = 1
  /\ resp = [op |-> "start"]
  /\ ledger = EmptyLedger

ApiKeyInputs == {None} \cup {Some(k) : k \in ApiKeys}

MintedTokens ==
  {create_access_token([sub |-> u], a, k, t) :
     u \in Users, a \in AccessMaxAges, k \in 1..MaxKey, t \in 0..clock}
  \cup {create_refresh_token([sub |-> u], k, None, None, t, 1) :
          u \in Users, k \in 1..MaxKey, t \in 0..clock}

BearerInputs == {None} \cup {Some(x) : x \in MintedTokens \cup {Malformed}}

NextResolver ==
  /\ resp.op = "start"
  /\ \E q, h, c \in ApiKeyInputs, t \in BearerInputs : Resolve(q, h, c, t)

SpecResolver == InitResolver /\ [][NextResolver]_vars

\* ---------------------------------------------- sessions and history
\* The service as its clients together see it: any number of sessions, each
\* token issued so far can be presented by whoever holds it, and ledger
\* records what was issued, what was used and who logged in.
InitSessions ==
  /\ clock = 0
  /\ tz \in TZOffsets
  /\ settings \in {s \in Settings : /\ s.single_user_api_key = None
                                     /\ ~s.allow_anonymous_access
                                     /\ s.refresh_token_max_age = Seconds(2)
                                     /\ s.session_max_age = Some(Seconds(2))}
  /\ secret_keys = <<1>>
  /\ authenticator = Some("authenticator")
  /\ chain = <<>>
  /\ next_uuid = 1
  /\ resp = [op |-> "start"]
  /\ ledger = EmptyLedger

\* A login request, as Login; the history records a successful one.
LoginSession(username, password, d) ==
  LET t1 == clock
      t2 == clock + d
      r == login_for_access_token(username, password, t1, t2, next_uuid)
  IN /\ t2 <= MaxClock
     /\ r.ok => Len(ledger.logins) < MaxLogins
     /\ resp' = [op |-> "login", username |-> username, password |-> password,
                 t0 |-> clock, t1 |-> t1, t2 |-> t2, keys |-> secret_keys, r |-> r]
     /\ IF r.ok
        THEN /\ clock' = t2
             /\ next_uuid' = next_uuid + 1
             /\ ledger' =
                  [ledger EXCEPT
                     !.issued = @ \cup {r.access_token, r.refresh_token},
                     !.logins = Append(@, [user |-> Authenticate(username, password),
                                           sid |-> r.refresh_token.claims.sid])]
        ELSE UNCHANGED <<clock, next_uuid, ledger>>
     /\ UNCHANGED <<tz, settings, secret_keys, authenticator, chain>>

\* A refresh request, as Refresh; the history records a successful one.
RefreshSession(token, d) ==
  LET t1 == clock + d
      t2 == clock + d
      r == refresh(token, clock, t1, t2, next_uuid)
  IN /\ t2 <= MaxClock
     /\ r.ok => ledger.refreshes < MaxRefreshes
     /\ resp' = [op |-> "refresh", token |-> token,
                 t0 |-> clock, t1 |-> t1, t2 |-> t2, keys |-> secret_keys, r |-> r]
     /\ IF r.ok
        THEN /\ clock' = t2
             /\ ledger' =
                  [ledger EXCEPT
                     !.issued = @ \cup {r.access_token, r.refresh_token},
                     !.used = @ \cup {token},
                     !.refreshes = @ + 1]
        ELSE UNCHANGED <<clock, ledger>>
     /\ UNCHANGED <<tz, settings, secret_keys, authenticator, chain, next_uuid>>

\* What can be presented as a token: every token issued so far, or a string
\* that is no token.
Issued == ledger.issued \cup {Malformed}

NextSessions ==
  \/ Tick
  \/ \E u \in Users, p \in Passwords, d \in Drifts : LoginSession(u, p, d)
  \/ \E t \in Issued, d \in Drifts : RefreshSession(t, d)
  \/ \E t \in {None} \cup {Some(x) : x \in Issued} : Resolve(None, None, None, t)
  \/ Logout

SpecSessions == InitSessions /\ [][NextSessions]_vars

\* ============================================================== claims
Range(seq) == {seq[i] : i \in 1..Len(seq)}
SessionExpiredError == Error(401, "Session has expired. Please re-authenticate.")
AccessExpiredError == Error(401, "Access token has expired.")
\* The last request was a refresh presenting a refresh token signed by a
\* key of the ring.
RefreshOfSignedRefreshToken ==
  /\ resp.op = "refresh"
  /\ resp.token.claims.type = "refresh"
  /\ resp.token.key \in Range(resp.keys)
\* "now" of the last refresh request, and the presented token's ages at it.
RespNow == Timestamp(resp.t0)
RespTokenAge == RespNow - resp.token.claims.iat
RespSessionAge == RespNow - resp.token.claims.sct

\* ------------------------------------------------------------------ C1
SameSession(old, new) ==
  /\ new.claims.sub = old.claims.sub
  /\ new.claims.sid = old.claims.sid
  /\ new.claims.sct = old.claims.sct

\* C1: every refresh token of a chain of successful refreshes carries the
\* sub, sid and sct of the login's refresh token; a successful refresh copies
\* them from the presented token and sets only iat anew, to the timestamp of
\* the clock read during the call.
ThmC1 ==
  /\ \A i \in 1..Len(chain) :
       SameSession(chain[1].refresh_token, chain[i].refresh_token)
  /\ (resp.op = "refresh" /\ resp.r.ok) =>
       /\ SameSession(resp.token, resp.r.refresh_token)
       /\ DOMAIN resp.r.refresh_token.claims = DOMAIN resp.token.claims
       /\ resp.r.refresh_token.claims.type = "refresh"
       /\ resp.r.refresh_token.claims.iat = Timestamp(resp.t1)
       /\ resp.t0 <= resp.t1 /\ resp.t1 <= clock

\* A chain of two refreshes made at three different times.
WitC1 ==
  /\ Len(chain) >= 3
  /\ chain[1].refresh_token.claims.iat < chain[2].refresh_token.claims.iat
  /\ chain[2].refresh_token.claims.iat < chain[3].refresh_token.claims.iat
  /\ resp.op = "refresh" /\ resp.r.ok
  /\ resp.r.refresh_token = chain[3].refresh_token

\* ------------------------------------------------------------------ C2
\* A refresh token's iat is at most `slack` past sct + session_max_age.
IatWithinSession(token, slack) ==
  token.claims.iat <= token.claims.sct + settings.session_max_age[1] + slack

\* With no session max age, a refresh of a correctly signed refresh token
\* made within refresh_max_age of its iat succeeds, whatever the session's age.
UnboundedWithoutSessionMaxAge ==
  (/\ settings.session_max_age = None
   /\ RefreshOfSignedRefreshToken
   /\ RespTokenAge <= settings.refresh_token_max_age) => resp.r.ok

\* No refresh succeeds at a "now" with now - sct > session_max_age.
NoRefreshPastSessionMaxAge ==
  (/\ settings.session_max_age # None
   /\ resp.op = "refresh"
   /\ resp.r.ok) => RespSessionAge <= settings.session_max_age[1]

\* C2 as claimed: with a session max age no refresh succeeds past it, so that
\* every refresh token of a chain has iat <= sct + session_max_age; with
\* none, a chain is extended as long as each refresh is within
\* refresh_max_age of the previous iat.
CexC2 ==
  /\ NoRefreshPastSessionMaxAge
  /\ UnboundedWithoutSessionMaxAge
  /\ settings.session_max_age # None =>
       /\ \A i \in 1..Len(chain) : IatWithinSession(chain[i].refresh_token, 0)
       /\ (resp.op = "refresh" /\ resp.r.ok) =>
            IatWithinSession(resp.r.refresh_token, 0)

\* C2 as amended: the new token's iat is read from the clock after "now",
\* so that iat exceeds sct + session_max_age by at most the time the handler
\* took between the two clock reads.
ThmC2 ==
  /\ NoRefreshPastSessionMaxAge
  /\ UnboundedWithoutSessionMaxAge
  /\ settings.session_max_age # None =>
       /\ \A i \in 1..Len(chain) :
            IatWithinSession(chain[i].refresh_token, MaxDrift)
       /\ (resp.op = "refresh" /\ resp.r.ok) =>
            IatWithinSession(resp.r.refresh_token, resp.t1 - resp.t0)

\* After a successful refresh, the newest token of the chain is refused for
\* the session's age alone.
WitC2 ==
  /\ settings.session_max_age # None
  /\ Len(chain) >= 2
  /\ RefreshOfSignedRefreshToken
  /\ resp.token = chain[Len(chain)].refresh_token
  /\ RespTokenAge <= settings.refresh_token_max_age
  /\ RespSessionAge > settings.session_max_age[1]
  /\ resp.r = SessionExpiredError

\* Without a session max age, a chain reaches past every session max age of
\* SessionMaxAges.
ReachC2Unbounded ==
  /\ settings.session_max_age = None
  /\ resp.op = "refresh" /\ resp.r.ok
  /\ \A m \in SessionMaxAges \ {None} : ~(RespSessionAge <= m[1])

\* ------------------------------------------------------------------ C3
SessionAgeOk ==
  settings.session_max_age = None \/ RespSessionAge <= settings.session_max_age[1]

\* C3: a correctly signed refresh token is refused with 401 "Session has
\* expired" when now - iat > refresh_max_age (so at refresh_max_age + 1s) and,
\* the session age check passing, accepted when now - iat <= refresh_max_age
\* (so at refresh_max_age - 1s and at refresh_max_age itself).
ThmC3 ==
  RefreshOfSignedRefreshToken =>
    /\ RespTokenAge > settings.refresh_token_max_age => resp.r = SessionExpiredError
    /\ RespTokenAge = settings.refresh_token_max_age + Seconds(1) =>
         resp.r = SessionExpiredError
    /\ (SessionAgeOk /\ RespTokenAge <= settings.refresh_token_max_age) => resp.r.ok
    /\ (SessionAgeOk /\ RespTokenAge = settings.refresh_token_max_age - Seconds(1)) =>
         resp.r.ok

\* A token of age refresh_max_age exactly is accepted.
WitC3 ==
  /\ RefreshOfSignedRefreshToken
  /\ RespTokenAge = settings.refresh_token_max_age
  /\ resp.r.ok

ReachC3Refused ==
  /\ RefreshOfSignedRefreshToken
  /\ RespTokenAge = settings.refresh_token_max_age + Seconds(1)
  /\ SessionAgeOk
  /\ resp.r = SessionExpiredError

\* ------------------------------------------------------------------ C4
\* C4: for a correctly signed refresh token that passes the refresh max age
\* check, the refresh fails, with 401 "Session has expired", exactly when a
\* session max age is configured and now - sct exceeds it, and succeeds
\* otherwise; this under every refresh_max_age.
ThmC4 ==
  (RefreshOfSignedRefreshToken /\ RespTokenAge <= settings.refresh_token_max_age) =>
    /\ ~resp.r.ok <=> (/\ settings.session_max_age # None
                       /\ RespSessionAge > settings.session_max_age[1])
    /\ ~resp.r.ok => resp.r = SessionExpiredError

\* A session of age session_max_age exactly is refreshed, under a refresh
\* max age that is longer than the session max age.
WitC4 ==
  /\ RefreshOfSignedRefreshToken
  /\ settings.session_max_age # None
  /\ settings.refresh_token_max_age > settings.session_max_age[1]
  /\ RespSessionAge = settings.session_max_age[1]
  /\ resp.r.ok

ReachC4Refused ==
  /\ RefreshOfSignedRefreshToken
  /\ settings.session_max_age # None
  /\ settings.refresh_token_max_age < settings.session_max_age[1]
  /\ RespTokenAge <= settings.refresh_token_max_age
  /\ RespSessionAge = settings.session_max_age[1] + Seconds(1)
  /\ resp.r = SessionExpiredError

\* ------------------------------------------------------------------ C5
\* A refresh token signed by a key of the ring, presented as bearer token, is
\* refused with 401 "Could not validate credentials".
RefreshTokenAsBearerRefused ==
  (/\ resp.op = "resolve"
   /\ resp.token # None
   /\ resp.token[1].claims.type = "refresh"
   /\ resp.token[1].key \in Range(resp.keys)) => resp.r = credentials_exception

\* The last request was a refresh presenting an access token signed by a key
\* of the ring.
RefreshOfSignedAccessToken ==
  /\ resp.op = "refresh"
  /\ resp.token.claims.type = "access"
  /\ resp.token.key \in Range(resp.keys)

\* C5 as claimed: a refresh token presented to the resolver and an access
\* token presented to the refresh endpoint are both refused with 401 "Could
\* not validate credentials", for every such token signed by a key of the ring.
CexC5 ==
  /\ RefreshTokenAsBearerRefused
  /\ RefreshOfSignedAccessToken => resp.r = credentials_exception

\* C5 as amended: a refresh token presented to the resolver is refused with
\* 401 "Could not validate credentials"; an access token presented to the
\* refresh endpoint is refused too, with 401 "Could not validate
\* credentials" while it has not expired and with 401 "Access token has
\* expired." once it has.
ThmC5 ==
  /\ RefreshTokenAsBearerRefused
  /\ RefreshOfSignedAccessToken =>
       resp.r = IF resp.token.claims.exp < Timegm(resp.t0)
                THEN AccessExpiredError
                ELSE credentials_exception

\* An expired access token is presented to the refresh endpoint.
WitC5 ==
  /\ RefreshOfSignedAccessToken
  /\ resp.token.claims.exp < Timegm(resp.t0)
  /\ resp.r = AccessExpiredError

ReachC5Bearer ==
  /\ resp.op = "resolve"
  /\ resp.token # None
  /\ resp.token[1].claims.type = "refresh"
  /\ resp.token[1].key \in Range(resp.keys)
  /\ resp.r = credentials_exception

ReachC5Unexpired ==
  /\ RefreshOfSignedAccessToken
  /\ resp.r = credentials_exception

\* ------------------------------------------------------------------ C6
\* The token of the last request, when it was a decoding one, and the type
\* its endpoint expects.
RespDecodes ==
  \/ resp.op = "refresh"
  \/ resp.op = "resolve" /\ resp.token # None
RespToken == IF resp.op = "refresh" THEN resp.token ELSE resp.token[1]
RespExpectedType == IF resp.op = "refresh" THEN "refresh" ELSE "access"
\* The token is of the expected type and has not expired.
RespTokenCurrent ==
  /\ RespToken.claims.type = RespExpectedType
  /\ "exp" \in DOMAIN RespToken.claims => ~(RespToken.claims.exp < Timegm(resp.t0))
\* The request got past decode_token.
RespDecoded ==
  IF resp.op = "resolve"
  THEN resp.r.ok /\ resp.r.principal = Named(RespToken.claims.sub)
  ELSE resp.r.ok \/ resp.r = SessionExpiredError

\* C6: a token of the expected type that has not expired, signed with key K,
\* decodes whenever K is in the key ring, at whatever position and after
\* whatever keys; a token signed with a key that is not in the ring fails with
\* 401 "Could not validate credentials".
ThmC6 ==
  RespDecodes =>
    /\ (RespToken.key \in Range(resp.keys) /\ RespTokenCurrent) => RespDecoded
    /\ RespToken.key \notin Range(resp.keys) => resp.r = credentials_exception

\* A token is decoded by a key that is not the first of the ring.
WitC6 ==
  /\ RespDecodes
  /\ RespToken # Malformed
  /\ Len(resp.keys) >= 2
  /\ RespToken.key = resp.keys[Len(resp.keys)]
  /\ RespTokenCurrent
  /\ RespDecoded

\* A token issued by this service is refused once its key has left the ring.
ReachC6Retired ==
  /\ RespDecodes
  /\ RespToken # Malformed
  /\ RespToken.key \notin Range(resp.keys)
  /\ RespTokenCurrent
  /\ resp.r = credentials_exception

\* ------------------------------------------------------------------ C7
\* Signed with key, and verified by key alone.
SignedWith(token, key) ==
  /\ token.key = key
  /\ JwtDecode(token, key, resp.t0).outcome = "payload"

\* C7: both tokens of a successful login or refresh are signed with the key
\* at position 0 of the ring at the time of the call, also when the presented
\* refresh token was verified by a later key.
ThmC7 ==
  (resp.op \in {"login", "refresh"} /\ resp.r.ok) =>
    /\ SignedWith(resp.r.access_token, resp.keys[1])
    /\ SignedWith(resp.r.refresh_token, resp.keys[1])

\* A refresh whose presented token was verified by a later key of the ring.
WitC7 ==
  /\ resp.op = "refresh" /\ resp.r.ok
  /\ resp.token.key # resp.keys[1]
  /\ resp.r.refresh_token.key = resp.keys[1]

\* ------------------------------------------------------------------ C8
\* The last request presented, with no API key, the access token of
\* chain[i], whose signing key is in the ring.
ResolveOfMinted(i) ==
  /\ resp.op = "resolve"
  /\ resp.token = Some(chain[i].access_token)
  /\ chain[i].access_token.key \in Range(resp.keys)

\* C8 as claimed: an access token minted for P at time t is accepted, as P,
\* when presented at t and refused with 401 "Access token has expired" when
\* presented at any time >= t + access_token_max_age.
CexC8 ==
  \A i \in 1..Len(chain) :
    ResolveOfMinted(i) =>
      /\ resp.t0 = chain[i].minted =>
           resp.r.ok /\ resp.r.principal = Named(chain[i].access_token.claims.sub)
      /\ resp.t0 >= chain[i].minted + settings.access_token_max_age =>
           resp.r = AccessExpiredError

\* What the code does: the token is refused once the whole second of the
\* clock has passed the whole second of t + access_token_max_age, and
\* accepted until then.
AccessTokenLifetime ==
  \A i \in 1..Len(chain) :
    ResolveOfMinted(i) =>
      IF Timegm(resp.t0) > Timegm(chain[i].minted + settings.access_token_max_age)
      THEN resp.r = AccessExpiredError
      ELSE resp.r.ok /\ resp.r.principal = Named(chain[i].access_token.claims.sub)

\* ------------------------------------------------------------------ C9
InvalidApiKeyError == Error(401, "Invalid API key")
\* The first value that is not absent of the channels in the order query,
\* header, cookie; None when all three are absent.
FirstPresent(q, h, c) == IF q # None THEN q ELSE IF h # None THEN h ELSE c
RespFirstApiKey ==
  FirstPresent(resp.api_key_query, resp.api_key_header, resp.api_key_cookie)
\* The first value present is the configured key.
RespKeyMatches ==
  RespFirstApiKey # None /\ RespFirstApiKey = settings.single_user_api_key

\* C9: the first value present, in the order query, header, cookie, alone
\* decides the API key check: the request is refused with 401 "Invalid API
\* key" exactly when that value differs from the configured key, whatever the
\* later channels hold, and the check's answer is the same with the later
\* channels emptied.
ThmC9 ==
  resp.op = "resolve" =>
    LET q == resp.api_key_query
        h == resp.api_key_header
        c == resp.api_key_cookie
        first == RespFirstApiKey
    IN /\ (first # None /\ first # settings.single_user_api_key)
            <=> resp.r = InvalidApiKeyError
       /\ check_single_user_api_key(q, h, c) =
            IF q # None THEN check_single_user_api_key(q, None, None)
            ELSE IF h # None THEN check_single_user_api_key(None, h, None)
            ELSE check_single_user_api_key(None, None, c)
       /\ check_single_user_api_key(q, h, c) =
            IF first = None THEN [ok |-> TRUE, value |-> FALSE]
            ELSE IF first = settings.single_user_api_key
                 THEN [ok |-> TRUE, value |-> TRUE]
                 ELSE InvalidApiKeyError

\* The query value does not match and the request is refused, though header
\* and cookie hold the configured key.
WitC9 ==
  /\ resp.op = "resolve"
  /\ settings.single_user_api_key # None
  /\ resp.api_key_query # None
  /\ resp.api_key_query # settings.single_user_api_key
  /\ resp.api_key_header = settings.single_user_api_key
  /\ resp.api_key_cookie = settings.single_user_api_key
  /\ resp.r = InvalidApiKeyError

\* The header value matches and a cookie that does not match is not looked at.
ReachC9Match ==
  /\ resp.op = "resolve"
  /\ resp.api_key_query = None
  /\ resp.api_key_header = settings.single_user_api_key
  /\ resp.api_key_header # None
  /\ resp.api_key_cookie \notin {None, settings.single_user_api_key}
  /\ resp.r.ok

\* ----------------------------------------------------------------- C10
\* C10: the resolver returns the admin sentinel exactly when no
\* authenticator is configured and the first API key value present is the
\* configured single-user API key, whatever the bearer token and the
\* anonymous access flag are.
ThmC10 ==
  resp.op = "resolve" =>
    ((resp.r.ok /\ resp.r.principal = Admin)
       <=> (authenticator = None /\ RespKeyMatches))

\* Admin is resolved while the bearer token has expired and anonymous access
\* is off.
WitC10 ==
  /\ resp.op = "resolve"
  /\ resp.r.ok /\ resp.r.principal = Admin
  /\ ~settings.allow_anonymous_access
  /\ resp.token # None
  /\ resp.token[1].claims.type = "access"
  /\ resp.token[1].key \in Range(resp.keys)
  /\ resp.token[1].claims.exp < Timegm(resp.t0)

\* With an authenticator the configured key does not make the request admin.
ReachC10Authenticator ==
  /\ resp.op = "resolve"
  /\ authenticator # None
  /\ RespKeyMatches
  /\ resp.r.ok /\ resp.r.principal # Admin

\* ----------------------------------------------------------------- C11
NotAuthenticatedError == Error(401, "Not authenticated")
\* The last request carried no credential: no API key on any channel and no
\* bearer token.
RespNoCredential ==
  /\ resp.op = "resolve"
  /\ resp.api_key_query = None
  /\ resp.api_key_header = None
  /\ resp.api_key_cookie = None
  /\ resp.token = None

\* C11: with no authenticator and no single-user API key configured, a
\* request without any credential resolves to the public sentinel, and
\* schedules no cookie, when anonymous access is enabled, and is refused with
\* 401 "Not authenticated" when it is disabled.
ThmC11 ==
  (/\ RespNoCredential
   /\ authenticator = None
   /\ settings.single_user_api_key = None) =>
    resp.r = IF settings.allow_anonymous_access
             THEN [ok |-> TRUE, principal |-> Public, cookies_to_set |-> <<>>]
             ELSE NotAuthenticatedError

\* A request without credential is refused: anonymous access is disabled.
WitC11 ==
  /\ RespNoCredential
  /\ authenticator = None
  /\ settings.single_user_api_key = None
  /\ ~settings.allow_anonymous_access
  /\ resp.r = NotAuthenticatedError

ReachC11Public ==
  /\ RespNoCredential
  /\ authenticator = None
  /\ settings.single_user_api_key = None
  /\ settings.allow_anonymous_access
  /\ resp.r.ok /\ resp.r.principal = Public

\* ----------------------------------------------------------------- C12
\* The session ids of the refresh tokens in a set of tokens.
SessionIds(tokens) == {t.claims.sid : t \in {x \in tokens : x.claims.type = "refresh"}}

\* The step is a successful login whose refresh token starts a session that
\* no token issued before belongs to, created at the time of the login.
LoginStartsNewSession ==
  (resp'.op = "login" /\ resp'.r.ok) =>
    LET new == resp'.r.refresh_token.claims
    IN /\ new.sid \notin SessionIds(ledger.issued)
       /\ \A i \in 1..Len(ledger.logins) : ledger.logins[i].sid # new.sid
       /\ new.sct = new.iat
       /\ new.iat = Timestamp(resp'.t2)
       /\ clock <= resp'.t2 /\ resp'.t2 <= clock'

\* C12: the refresh token of a successful login has a session id that no
\* token issued before, by a login or a refresh, carries, so that no two
\* logins share a session id, and its sct is its own iat, the timestamp of
\* the clock read during the login.
ThmC12 == [][LoginStartsNewSession]_vars

\* The same user has logged in twice, and a refresh has been served between
\* the two logins.
WitC12 ==
  /\ resp.op = "login" /\ resp.r.ok
  /\ Len(ledger.logins) = 2
  /\ ledger.logins[1].user = ledger.logins[2].user
  /\ ledger.logins[1].sid # ledger.logins[2].sid
  /\ ledger.used # {}
  /\ resp.r.refresh_token.claims.sid = ledger.logins[2].sid

\* ----------------------------------------------------------------- C13
\* The refresh and the access tokens issued so far.
IssuedRefresh == {t \in ledger.issued : t.claims.type = "refresh"}
IssuedAccess == {t \in ledger.issued : t.claims.type = "access"}
\* A refresh token passes both age checks at wall clock utcnow.
PassesAgeChecks(token, utcnow) ==
  /\ Timestamp(utcnow) - token.claims.iat <= settings.refresh_token_max_age
  /\ \/ settings.session_max_age = None
     \/ Timestamp(utcnow) - token.claims.sct <= settings.session_max_age[1]
\* Presented now, the refresh token would be accepted.
RefreshAccepts(token) == refresh(token, clock, clock, clock, next_uuid).ok
\* Presented now, the access token would resolve to its subject.
ResolverAccepts(token) ==
  LET r == get_current_user(None, None, None, Some(token), clock)
  IN r.ok /\ r.principal = Named(token.claims.sub)

\* C13: at every moment of every history of logins, refreshes and logouts,
\* each refresh token issued so far that passes the age checks is accepted,
\* used before or not, so that a token and its successors are accepted side
\* by side, and each access token issued so far that has not expired is
\* accepted; the last request, when it presented such a token, succeeded.
ThmC13 ==
  /\ \A t \in IssuedRefresh : PassesAgeChecks(t, clock) => RefreshAccepts(t)
  /\ \A t \in IssuedAccess : ~(t.claims.exp < Timegm(clock)) => ResolverAccepts(t)
  /\ (/\ resp.op = "refresh"
      /\ resp.token \in IssuedRefresh
      /\ PassesAgeChecks(resp.token, resp.t0)) => resp.r.ok
  /\ (/\ resp.op = "resolve"
      /\ resp.token # None
      /\ resp.token[1] \in IssuedAccess
      /\ ~(resp.token[1].claims.exp < Timegm(resp.t0))) => resp.r.ok

\* A login has followed the last logout.
LoginAfterLogout ==
  \E i \in 1..Len(ledger.logins) :
    ledger.logins[i].sid \notin SessionIds(ledger.at_logout.issued)

\* A refresh token that had been used before the last logout is accepted
\* again, after that logout and a login that followed it, while a successor
\* of it is accepted too.
WitC13 ==
  /\ resp.op = "refresh" /\ resp.r.ok
  /\ resp.token \in ledger.at_logout.used
  /\ LoginAfterLogout
  /\ \E s \in ledger.at_logout.issued :
       /\ s.claims.type = "refresh"
       /\ s # resp.token
       /\ s.claims.sid = resp.token.claims.sid
       /\ s.claims.iat > resp.token.claims.iat
       /\ RefreshAccepts(s)

\* An access token issued before the last logout is accepted after it.
ReachC13Access ==
  /\ resp.op = "resolve"
  /\ resp.token # None
  /\ resp.token[1] \in ledger.at_logout.issued
  /\ resp.token[1].claims.type = "access"
  /\ resp.r.ok /\ resp.r.principal = Named(resp.token[1].claims.sub)

\* ----------------------------------------------------------------- C14
\* The last request was a refresh presenting the refresh token of the login,
\* at the very clock reading of the login.
RefreshImmediatelyAfterLogin ==
  /\ chain # <<>>
  /\ resp.op = "refresh"
  /\ resp.token = chain[1].refresh_token
  /\ resp.token.key \in Range(resp.keys)
  /\ RespTokenAge = 0

\* C14 as claimed: a refresh made immediately after the login, with the
\* login's refresh token, succeeds and returns a refresh token that is
\* another signed string and decodes to the same session id.
CexC14 ==
  RefreshImmediatelyAfterLogin =>
    /\ resp.r.ok
    /\ resp.r.refresh_token # resp.token
    /\ resp.r.refresh_token.claims.sid = resp.token.claims.sid

\* What the code does: the refresh succeeds and keeps the session id, and
\* the string it returns is another one exactly when the clock read by
\* create_refresh_token or the encoding key differs from the login's.
ImmediateRefresh ==
  RefreshImmediatelyAfterLogin =>
    /\ resp.r.ok
    /\ resp.r.refresh_token.claims.sid = resp.token.claims.sid
    /\ (resp.r.refresh_token # resp.token)
         <=> (resp.t1 # resp.t0 \/ resp.keys[1] # resp.token.key)

\* The refresh returns the very string it was given.
ReachC14Same ==
  /\ RefreshImmediatelyAfterLogin
  /\ resp.r.ok
  /\ resp.r.refresh_token = resp.token

\* ----------------------------------------------------------------- C15
Requests == {"login", "refresh", "resolve", "logout"}
\* The answer the handler gives, in the current state, to the request
\* recorded in q, were it to read the clock as it did for q and were
\* uuid.uuid4().int to return what it did for q.
Replay(q) ==
  CASE q.op = "login" ->
         login_for_access_token(q.username, q.password, q.t1, q.t2,
                                IF q.r.ok THEN q.r.refresh_token.claims.sid ELSE 1)
    [] q.op = "refresh" -> refresh(q.token, q.t0, q.t1, q.t2, 1)
    [] q.op = "resolve" ->
         get_current_user(q.api_key_query, q.api_key_header, q.api_key_cookie,
                          q.token, q.t0)
    [] q.op = "logout" -> logout

\* The handler gives, in the state its request left behind, the answer it
\* gave to the request, were the request made again at the same clock
\* readings.
SameAnswerAgain == resp.op \in Requests => Replay(resp) = resp.r

\* A step changes neither the answer to the request served before it, were
\* that request made again at the same clock readings, nor the configuration.
StepChangesNoAnswer ==
  /\ \A q \in {resp} : q.op \in Requests => Replay(q)' = q.r
  /\ UNCHANGED <<settings, secret_keys, authenticator, tz>>

RespApiKeyPath == authenticator = None /\ RespKeyMatches
RespAnonymousPath == ~RespApiKeyPath /\ resp.token = None
RespBearerPath == ~RespApiKeyPath /\ resp.token # None

RespVerifyingKeys ==
  {i \in 1..Len(resp.keys) :
     JwtDecode(RespToken, resp.keys[i], resp.t0).outcome # "JWTError"}
RespExpired ==
  "exp" \in DOMAIN RespToken.claims /\ RespToken.claims.exp < Timegm(resp.t0)

\* C17: decoding tries the keys in order. A key that fails on the signature
\* is passed over: the result is that of the ring without it. At the first
\* key that verifies the signature decoding ends, with 401 "Access token has
\* expired." when the token has expired, whatever keys follow, and with the
\* payload otherwise (which the type check then accepts or refuses). When
\* every key fails on the signature the result is 401 "Could not validate
\* credentials".
ThmC17 ==
  RespDecodes =>
    LET keys == resp.keys
        looped == DecodeLoop(RespToken, keys, 1, resp.t0)
    IN /\ RespVerifyingKeys = {} =>
            looped = credentials_exception /\ resp.r = credentials_exception
       /\ (RespVerifyingKeys # {} /\ RespExpired) =>
            looped = AccessExpiredError /\ resp.r = AccessExpiredError
       /\ (RespVerifyingKeys # {} /\ ~RespExpired) =>
            /\ looped = [ok |-> TRUE, payload |-> RespToken.claims]
            /\ IF RespToken.claims.type = RespExpectedType
               THEN RespDecoded
               ELSE resp.r = credentials_exception
       /\ 1 \notin RespVerifyingKeys =>
            looped = DecodeLoop(RespToken, Tail(keys), 1, resp.t0)
       /\ \A i \in RespVerifyingKeys :
            looped = DecodeLoop(RespToken, SubSeq(keys, 1, i), 1, resp.t0)

\* The token has expired under the first key of a ring of two, and decoding
\* ends there.
WitC17 ==
  /\ RespDecodes
  /\ Len(resp.keys) >= 2
  /\ RespVerifyingKeys = {1}
  /\ RespExpired
  /\ resp.r = AccessExpiredError

\* The first key fails on the signature, the second finds the token expired.
ReachC17Second ==
  /\ RespDecodes
  /\ RespVerifyingKeys = {2}
  /\ RespExpired
  /\ resp.r = AccessExpiredError

\* Both keys of a ring of two fail on a string that is no token.
ReachC17None ==
  /\ RespDecodes
  /\ RespToken = Malformed
  /\ Len(resp.keys) >= 2
  /\ RespVerifyingKeys = {}
  /\ resp.r = credentials_exception

\* ----------------------------------------------------------------- C18
\* The cookies the last request scheduled on its response.
RespCookiesToSet ==
  IF "cookies_to_set" \in DOMAIN resp.r THEN resp.r.cookies_to_set ELSE <<>>
\* The one cookie that is ever scheduled: the API key cookie, holding the
\* configured key.
ApiKeyCookie == <<API_KEY_COOKIE_NAME, settings.single_user_api_key>>
\* The configured key arrived in the cookie of the request.
RespKeyInCookie == resp.api_key_cookie = settings.single_user_api_key

\* C18: a request that resolves to admin schedules the API key cookie, once
\* and with the configured key, exactly when its own cookie does not hold the
\* configured key (the key arrived by query parameter or header only), and
\* schedules nothing when the cookie holds it, also when query parameter or
\* header hold it too; a request that resolves to public or to a named user,
\* or is refused, schedules no cookie.
ThmC18 ==
  resp.op = "resolve" =>
    IF resp.r.ok /\ resp.r.principal = Admin
    THEN /\ RespCookiesToSet = IF RespKeyInCookie THEN <<>> ELSE <<ApiKeyCookie>>
         /\ (resp.api_key_cookie = None) => RespCookiesToSet = <<ApiKeyCookie>>
         /\ (resp.api_key_query = None /\ resp.api_key_header = None) =>
              RespCookiesToSet = <<>>
    ELSE RespCookiesToSet = <<>>

\* The key arrives in the header, the request has no cookie, and the cookie
\* is scheduled.
WitC18 ==
  /\ resp.op = "resolve"
  /\ resp.r.ok /\ resp.r.principal = Admin
  /\ resp.api_key_query = None
  /\ resp.api_key_header = settings.single_user_api_key
  /\ resp.api_key_cookie = None
  /\ resp.r.cookies_to_set = <<ApiKeyCookie>>

\* The key arrives in the cookie alone: nothing is scheduled.
ReachC18Cookie ==
  /\ resp.op = "resolve"
  /\ resp.r.ok /\ resp.r.principal = Admin
  /\ resp.api_key_query = None /\ resp.api_key_header = None
  /\ resp.r.cookies_to_set = <<>>

\* The key arrives in the query parameter and in the cookie: nothing is
\* scheduled.
ReachC18Both ==
  /\ resp.op = "resolve"
  /\ resp.r.ok /\ resp.r.principal = Admin
  /\ resp.api_key_query = settings.single_user_api_key
  /\ RespKeyInCookie
  /\ resp.r.cookies_to_set = <<>>

\* The key arrives in the query parameter, the cookie holds another value:
\* the cookie is scheduled.
ReachC18Stale ==
  /\ resp.op = "resolve"
  /\ resp.r.ok /\ resp.r.principal = Admin
  /\ resp.api_key_cookie \notin {None, settings.single_user_api_key}
  /\ resp.r.cookies_to_set = <<ApiKeyCookie>>

\* ----------------------------------------------------------------- C19
\* The last request presented a bearer access token that a key of the ring
\* signed and that has not expired.
RespValidBearer ==
  /\ resp.token # None
  /\ resp.token[1].claims.type = "access"
  /\ resp.token[1].key \in Range(resp.keys)
  /\ ~(resp.token[1].claims.exp < Timegm(resp.t0))

\* C19: a request whose first API key value present is not the configured
\* key is refused with 401 "Invalid API key", whatever the authenticator, the
\* bearer token and the anonymous access flag are, and also when no key is
\* configured; with an authenticator, a request whose first API key value
\* present is the configured key is answered as the same request without any
\* API key, from the bearer token or the anonymous rule.
ThmC19 ==
  resp.op = "resolve" =>
    /\ (RespFirstApiKey # None /\ RespFirstApiKey # settings.single_user_api_key)
         => resp.r = InvalidApiKeyError
    /\ (authenticator # None /\ RespKeyMatches) =>
         /\ resp.r = get_current_user(None, None, None, resp.token, resp.t0)
         /\ resp.r.ok => resp.r.principal # Admin
         /\ resp.token = None =>
              resp.r = IF settings.allow_anonymous_access
                       THEN [ok |-> TRUE, principal |-> Public, cookies_to_set |-> <<>>]
                       ELSE NotAuthenticatedError
         /\ RespValidBearer =>
              resp.r = [ok |-> TRUE, principal |-> Named(resp.token[1].claims.sub),
                        cookies_to_set |-> <<>>]

\* With an authenticator, no key configured and a valid bearer token, a
\* request that carries an API key is refused.
WitC19 ==
  /\ resp.op = "resolve"
  /\ authenticator # None
  /\ settings.single_user_api_key = None
  /\ RespFirstApiKey # None
  /\ RespValidBearer
  /\ resp.r = InvalidApiKeyError

\* With an authenticator, the configured key and a valid bearer token resolve
\* to the token's subject.
ReachC19Bearer ==
  /\ resp.op = "resolve"
  /\ authenticator # None
  /\ RespKeyMatches
  /\ RespValidBearer
  /\ resp.r.ok /\ resp.r.principal = Named(resp.token[1].claims.sub)

\* With an authenticator, the configured key and no bearer token are refused
\* where anonymous access is disabled.
ReachC19NotAuthenticated ==
  /\ resp.op = "resolve"
  /\ authenticator # None
  /\ RespKeyMatches
  /\ resp.token = None
  /\ resp.r = NotAuthenticatedError

\* ----------------------------------------------------------------- C20
\* The users the authenticator has returned for a successful login.
Authenticated == {ledger.logins[i].user : i \in 1..Len(ledger.logins)}

\* C20: over every history of logins, refreshes and resolver requests that
\* present only tokens this service issued, a bearer token resolves to a
\* named user only if the authenticator returned that user for an earlier
\* successful login; both tokens of a successful refresh carry the subject
\* of the refresh token presented, and every token issued carries the
\* subject of a user that logged in.
ThmC20 ==
  /\ (resp.op = "resolve" /\ resp.token # None /\ resp.r.ok) =>
       \E u \in Authenticated : resp.r.principal = Named(u)
  /\ (resp.op = "refresh" /\ resp.r.ok) =>
       /\ resp.r.access_token.claims.sub = resp.token.claims.sub
       /\ resp.r.refresh_token.claims.sub = resp.token.claims.sub
  /\ (resp.op = "login" /\ resp.r.ok) =>
       /\ resp.r.access_token.claims.sub = Authenticate(resp.username, resp.password)
       /\ resp.r.refresh_token.claims.sub = Authenticate(resp.username, resp.password)
  /\ \A t \in ledger.issued : t.claims.sub \in Authenticated

\* Two users have logged in; the session of the first is refreshed after the
\* login of the second, and the access token minted carries the first user.
WitC20 ==
  /\ resp.op = "refresh" /\ resp.r.ok
  /\ Len(ledger.logins) = 2
  /\ ledger.logins[1].user # ledger.logins[2].user
  /\ resp.token.claims.sid = ledger.logins[1].sid
  /\ resp.r.access_token.claims.sub = ledger.logins[1].user

\* After a refresh, a bearer token resolves to the first of two users that
\* have logged in.
ReachC20Resolve ==
  /\ resp.op = "resolve" /\ resp.r.ok
  /\ resp.token # None
  /\ ledger.refreshes >= 1
  /\ Len(ledger.logins) = 2
  /\ ledger.logins[1].user # ledger.logins[2].user
  /\ resp.r.principal = Named(ledger.logins[1].user)

\* A login with a wrong password issues nothing: a user that has not logged
\* in is no subject.
ReachC20Refused ==
  /\ resp.op = "login" /\ ~resp.r.ok
  /\ ledger.issued # {}
  /\ resp.username \notin Authenticated
====
